---- MODULE Spec2Model ----
(***************************************************************************)
(* Nexusnext landing page: the adaptive quality selector                   *)
(* (usePerformanceMonitor), the scroll tracker (useScrollProgress), the    *)
(* waitlist form (CtaSection), the waitlist endpoint of the backend        *)
(* (src/nexusnext-landing/backend/index.js) and the scene lifecycle of the *)
(* sphere and the helix scene, in the two App variants of the repository:  *)
(*   "src"      = src/nexusnext-landing/src/App.js                         *)
(*   "frontend" = src/nexusnext-landing/frontend/src/App.js                *)
(***************************************************************************)
EXTENDS Integers, Sequences, FiniteSets

\* ------------------------------------------------------------------------
\* Device signals (inputs)
\* ------------------------------------------------------------------------

\* navigator.hardwareConcurrency: a number, or undefined
Undefined == [defined |-> FALSE, value |-> 0]
Num(n) == [defined |-> TRUE, value |-> n]

\* window.innerWidth samples around the two thresholds
Widths == {767, 768, 1023, 1024}
\* navigator.hardwareConcurrency samples around the threshold
Concurrencies == {Undefined, Num(3), Num(4)}
\* navigator.connection?.effectiveType; "undefined" when the connection
\* object or the field is absent
EffectiveTypes == {"undefined", "slow-2g", "2g", "4g"}

Tiers == {"low", "medium", "high"}
\* one width per tier, for the runs that follow the scenes
TierWidths == {767, 768, 1024}
\* the widths used when both scenes are on the page (low and high)
BothWidths == {767, 1024}

\* setTimeout(..., 100) of the resize debounce
DebounceMs == 100
\* no timer pending
NoTimer == -1
\* amounts of time that pass between two events of the model, in ms
Ticks == {25, 50}
\* resize events counted within one burst
MaxBurst == 2

VARIABLES
    innerWidth,           \* window.innerWidth
    hardwareConcurrency,  \* navigator.hardwareConcurrency
    effectiveType,        \* navigator.connection?.effectiveType
    quality,              \* the quality state of usePerformanceMonitor
    timeoutId,            \* ms left on the pending debounce timer, or NoTimer
    pmMounted,            \* the selector's effect is active (listener registered)
    computedFrom,         \* history: the signals read by the last tier computation
    sinceResize,          \* history: ms since the last resize event (capped)
    recomputes,           \* history: recomputations since the last resize event
    burst                 \* history: resize events of the current burst that reached
                          \* the update listener (capped)

VARIABLES
    variant,              \* which App.js is running: "src" or "frontend"
    present,              \* the scene components the page renders
    compMounted,          \* per scene: the component is mounted (mountRef.current set)
    isLoaded,             \* per scene: the isLoaded state (placeholder hidden)
    insts,                \* per scene: the effect instances, oldest first
    sceneDataRef,         \* per scene: instance whose bundle sceneDataRef.current holds, 0 = null
    jobs,                 \* the promise job (microtask) queue, FIFO
    scrollProgress,       \* the scrollProgress prop, in percent
    lastRender            \* per scene: the render call issued by the last step, if any

qvars == <<innerWidth, hardwareConcurrency, effectiveType, quality, timeoutId,
           pmMounted, computedFrom, sinceResize, recomputes, burst>>

svars == <<variant, present, compMounted, isLoaded, insts, sceneDataRef, jobs,
           scrollProgress, lastRender>>

\* useScrollProgress
VARIABLES
    scrollY,              \* window.scrollY, in px
    rafId,                \* rafId.current: 0 = undefined / null, 1 = a request id
    scrollPending,        \* pending animation-frame callbacks of the tracker
    trackerMounted,       \* the tracker's effect is active (scroll listener registered)
    readScrollY,          \* history: the scrollY read by the last recomputation
    scrollUpdated,        \* history: a recomputation has published a value
    eventsSince,          \* history: scroll events since the last animation frame (capped)
    scheduledSince,       \* history: callbacks requested since the last animation frame
    ranLast,              \* history: recomputations run by the step just taken
    ranEvents             \* history: value of eventsSince when the last frame ran

tvars == <<scrollY, rafId, scrollPending, trackerMounted, readScrollY,
           scrollUpdated, eventsSince, scheduledSince, ranLast, ranEvents>>

\* backend: app.post('/api/waitlist')
VARIABLES
    reqBody,              \* the email field of the body of the request being handled
    srvPc,                \* "idle", "inserting" (the handler awaits the insert), "done"
    responses,            \* the responses sent for that request, in order
    insertCalls,          \* insert calls made for that request
    insertResult          \* history: what the insert settled with

bvars == <<reqBody, srvPc, responses, insertCalls, insertResult>>

\* CtaSection
VARIABLES
    email,                \* the email state (value of the input)
    message,              \* the message state
    isSubmitting,         \* the isSubmitting state
    fetchPc,              \* "idle", "fetching" (await fetch), "parsing" (await response.json())
    sentEmail,            \* history: the email of the request body of the last fetch,
                          \* until the input is edited again
    replyStatus,          \* the status of the response whose body is being parsed
    inFlight,             \* handleSubmit calls that have called fetch and not returned
    handled,              \* history: what the handleSubmit call of the step just taken did
    finished              \* history: how the submission completed by the step just taken ended

fvars == <<email, message, isSubmitting, fetchPc, sentEmail, replyStatus,
           inFlight, handled, finished>>

\* the state of the components a specification does not follow
xvars == <<tvars, bvars, fvars>>

vars == <<qvars, svars, xvars>>

\* ------------------------------------------------------------------------
\* usePerformanceMonitor
\* ------------------------------------------------------------------------

\* JavaScript `a < b` for a number-or-undefined a: undefined converts to NaN
\* and every comparison with NaN is false
JsLessThan(a, b) == IF a.defined THEN a.value < b ELSE FALSE

\* the useState initializer
InitialQuality(w, hc, net) ==
    LET mobile == w < 768
        lowEnd == JsLessThan(hc, 4)
        slowConnection == net = "slow-2g" \/ net = "2g"
    IN  IF mobile \/ lowEnd \/ slowConnection THEN "low"
        ELSE IF w < 1024 THEN "medium"
        ELSE "high"

\* variant of RecomputedQuality that takes a missing processor count for a
\* low one (`!(hardwareConcurrency >= 4)`)
RecomputedQualityMissingIsLow(w, hc, net) ==
    LET mobile == w < 768
        lowEnd == ~(hc.defined /\ hc.value >= 4)
        slowConnection == net = "slow-2g" \/ net = "2g"
    IN  IF mobile \/ lowEnd \/ slowConnection THEN "low"
        ELSE IF w < 1024 THEN "medium"
        ELSE "high"

\* the body of the debounced timer callback
RecomputedQuality(w, hc, net) ==
    LET mobile == w < 768
        lowEnd == JsLessThan(hc, 4)
        slowConnection == net = "slow-2g" \/ net = "2g"
    IN  IF mobile \/ lowEnd \/ slowConnection THEN "low"
        ELSE IF w < 1024 THEN "medium"
        ELSE "high"

Cap(n, m) == IF n > m THEN m ELSE n

\* update(): clearTimeout(timeoutId); timeoutId = setTimeout(..., 100)
UpdateTimer == DebounceMs

\* variant of CleanupTimer without the clearTimeout
CleanupTimerKept == timeoutId

\* the cleanup of the selector's effect: removeEventListener, clearTimeout
CleanupTimer == NoTimer

\* ------------------------------------------------------------------------
\* useScrollProgress
\* ------------------------------------------------------------------------

\* window.scrollY samples, in px: below zero (overscroll), zero, inside the
\* 800 px distance, at its end and beyond; all multiples of 8, so that the
\* progress in percent is a whole number
ScrollYs == {-80, 0, 400, 800, 1600}
\* the distance constant of `window.scrollY / 800`
ScrollDistance == 800
\* scroll events counted between two animation frames
MaxScrollBurst == 3
\* pending callbacks of the tracker the model follows
MaxPending == 2

MathMin(a, b) == IF a < b THEN a ELSE b
MathMax(a, b) == IF a > b THEN a ELSE b

\* variant of ScrollProgressOf without the lower clamp
ScrollProgressNoLowerClamp(y) == MathMin((y * 100) \div ScrollDistance, 100)

\* Math.min(Math.max(window.scrollY / 800, 0), 1), in percent
ScrollProgressOf(y) == MathMin(MathMax((y * 100) \div ScrollDistance, 0), 100)

\* variant of UpdateScrollSchedules without `if (rafId.current) return`
UpdateScrollUnguarded(id) == TRUE

\* updateScroll: `if (rafId.current) return`, else requestAnimationFrame
UpdateScrollSchedules(id) == id = 0

\* variant of RafIdAfterCallback without `rafId.current = null`
RafIdKept(id) == id

\* the last line of the animation-frame callback: `rafId.current = null`
RafIdAfterCallback(id) == 0

\* variant of PendingAfterCleanup without the cancelAnimationFrame
PendingNotCancelled(id, pending) == pending

\* the pending callbacks after the effect cleanup:
\* `if (rafId.current) cancelAnimationFrame(rafId.current)`
PendingAfterCleanup(id, pending) ==
    IF id # 0 /\ pending > 0 THEN pending - 1 ELSE pending

\* the tracker after its effect ran: the listener is registered and the
\* direct updateScroll() call has requested one animation frame
TrackerStarted(y) ==
    /\ scrollY = y
    /\ rafId = 1
    /\ scrollPending = 1
    /\ trackerMounted = TRUE
    /\ readScrollY = 0
    /\ scrollUpdated = FALSE
    /\ eventsSince = 0
    /\ scheduledSince = 1
    /\ ranLast = 0
    /\ ranEvents = 0

\* ------------------------------------------------------------------------
\* Waitlist: email patterns
\* ------------------------------------------------------------------------

\* characters of an email value: "a" stands for any character that is not
\* white space, "@" or "."; " " stands for any white space
Chars == {"a", "@", ".", " "}
\* length of the email values explored
MaxEmailLen == 5
Emails == UNION {[1..n -> Chars] : n \in 0..MaxEmailLen}

\* every character of s[a..b] is in the class [^\s@]
NoSpaceNoAt(s, a, b) == \A k \in a..b : s[k] \notin {" ", "@"}
\* every character of s[a..b] is in the class \S
NoSpace(s, a, b) == \A k \in a..b : s[k] # " "

\* /^[^\s@]+@[^\s@]+\.[^\s@]+$/.test(s): the whole string is a non-empty
\* run, "@", a non-empty run, ".", a non-empty run
ServerPattern(s) ==
    \E i, j \in 1..Len(s) :
        /\ s[i] = "@" /\ s[j] = "."
        /\ 1 < i /\ i + 1 < j /\ j < Len(s)
        /\ NoSpaceNoAt(s, 1, i - 1)
        /\ NoSpaceNoAt(s, i + 1, j - 1)
        /\ NoSpaceNoAt(s, j + 1, Len(s))

\* /\S+@\S+\.\S+/.test(s): some substring is a non-empty run, "@", a
\* non-empty run, ".", a non-empty run (not anchored)
ClientPattern(s) ==
    \E b, i, j, e \in 1..Len(s) :
        /\ s[i] = "@" /\ s[j] = "."
        /\ b < i /\ i + 1 < j /\ j < e
        /\ NoSpace(s, b, i - 1)
        /\ NoSpace(s, i + 1, j - 1)
        /\ NoSpace(s, j + 1, e)

\* ------------------------------------------------------------------------
\* Waitlist backend: POST /api/waitlist
\* ------------------------------------------------------------------------

\* the email field of req.body: a string, a number, or absent
StringBody(s) == [type |-> "string", chars |-> s]
NumberBody == [type |-> "number", chars |-> <<>>]
UndefinedBody == [type |-> "undefined", chars |-> <<>>]
Bodies == {StringBody(s) : s \in Emails} \cup {NumberBody, UndefinedBody}

\* variant of IsEmail that tests the pattern of the form
IsEmailUnanchored(body) == body.type = "string" /\ ClientPattern(body.chars)

\* isEmail: typeof email === 'string' && pattern.test(email)
IsEmail(body) == body.type = "string" /\ ServerPattern(body.chars)

\* error messages of the insert, as sequences of words
ErrorMessages == {<<"duplicate", "key">>, <<"Duplicate", "entry">>,
                  <<"DUPLICATE">>, <<"connection", "refused">>, <<>>}

\* what the awaited insert settles with: { error: null }, { error } with a
\* message, { error } without a message property, or a rejection
InsertOk == [kind |-> "ok", message |-> <<>>]
InsertError(msg) == [kind |-> "error", message |-> msg]
InsertErrorNoMessage == [kind |-> "error-no-message", message |-> <<>>]
InsertThrows == [kind |-> "throws", message |-> <<>>]
InsertNone == [kind |-> "none", message |-> <<>>]
InsertOutcomes == {InsertOk, InsertErrorNoMessage, InsertThrows}
                  \cup {InsertError(msg) : msg \in ErrorMessages}

\* String.prototype.toLowerCase on one word
WordToLowerCase(w) ==
    CASE w = "Duplicate" -> "duplicate"
      [] w = "DUPLICATE" -> "duplicate"
      [] OTHER -> w

ToLowerCase(msg) == [k \in 1..Len(msg) |-> WordToLowerCase(msg[k])]

\* String.prototype.includes for a needle that is one word
Includes(msg, needle) == \E k \in 1..Len(msg) : msg[k] = needle

Response(status, key, text) == [status |-> status, key |-> key, text |-> text]
Response400 == Response(400, "error", "Invalid email address")
Response200 == Response(200, "message", "Successfully added to waitlist.")
Response500 == Response(500, "error", "Failed to add to waitlist.")

\* variant of InsertFails that compares the message as it is
InsertFailsCaseSensitive(o) ==
    \/ o.kind = "throws"
    \/ o.kind = "error-no-message"
    \/ o.kind = "error" /\ ~Includes(o.message, "duplicate")

\* the try block after the await ends in the catch block: the insert
\* rejected, `error.message.toLowerCase()` threw for a missing message, or
\* `error && !error.message.toLowerCase().includes('duplicate')` held
InsertFails(o) ==
    \/ o.kind = "throws"
    \/ o.kind = "error-no-message"
    \/ o.kind = "error" /\ ~Includes(ToLowerCase(o.message), "duplicate")

\* the backend with no request in hand
BackendIdle ==
    /\ reqBody = UndefinedBody
    /\ srvPc = "idle"
    /\ responses = <<>>
    /\ insertCalls = 0
    /\ insertResult = InsertNone

\* ------------------------------------------------------------------------
\* Waitlist form: CtaSection
\* ------------------------------------------------------------------------

ThanksMessage == "Thanks! You've joined the waitlist."
GenericFailure == "Failed to submit. Please try again."
NetworkError == "Network error. Please try again later."

\* the error property of the parsed response body: absent, or a string
NoField == [has |-> FALSE, text |-> ""]
Field(t) == [has |-> TRUE, text |-> t]

\* what `await response.json()` settles with: a rejection (the body is not
\* JSON) or an object with or without an error property
NotJson == [json |-> FALSE, error |-> NoField]
Json(err) == [json |-> TRUE, error |-> err]
ReplyBodies == {NotJson, Json(NoField), Json(Field("")),
                Json(Field("Invalid email address")),
                Json(Field("Failed to add to waitlist."))}
\* status codes of the responses the form receives
ReplyStatuses == {200, 400, 500}
NoStatus == 0

\* response.ok
ResponseOk(status) == status \in 200..299

\* `data.error || "Failed to submit. Please try again."`
ErrorOrGeneric(err) == IF err.has /\ err.text # "" THEN err.text ELSE GenericFailure

\* handleSubmit calls in progress that the model follows
MaxInFlight == 2

\* variant of SubmitReturns without the isSubmitting test
SubmitReturnsWhileSubmitting(e, submitting) == e = <<>> \/ ~ClientPattern(e)

\* variant of SubmitReturns without the pattern test
SubmitReturnsNoPattern(e, submitting) == e = <<>> \/ submitting

\* the first line of handleSubmit:
\* `if (!email || !isEmail(email) || isSubmitting) return`
SubmitReturns(e, submitting) == e = <<>> \/ ~ClientPattern(e) \/ submitting

\* the disabled attribute of the submit button:
\* `isSubmitting || !email || !isEmail(email)`
SubmitDisabled == isSubmitting \/ email = <<>> \/ ~ClientPattern(email)

NotFinished == [how |-> "none", status |-> NoStatus, body |-> NotJson]
Finished(how, status, body) == [how |-> how, status |-> status, body |-> body]

\* variant of EmailAfter that clears the input after every parsed response
EmailAfterAlwaysCleared(status, e) == <<>>

\* the email state after a parsed response: setEmail("") when response.ok
EmailAfter(status, e) == IF ResponseOk(status) THEN <<>> ELSE e

\* the form as first rendered
FormIdle ==
    /\ email = <<>>
    /\ message = ""
    /\ isSubmitting = FALSE
    /\ fetchPc = "idle"
    /\ sentEmail = <<>>
    /\ replyStatus = NoStatus
    /\ inFlight = 0
    /\ handled = "none"
    /\ finished = NotFinished

\* the components a specification does not follow, in their state after
\* the page has loaded
InitOthers ==
    /\ TrackerStarted(0)
    /\ BackendIdle
    /\ FormIdle

\* ------------------------------------------------------------------------
\* Scenes: static structure
\* ------------------------------------------------------------------------

Variants == {"src", "frontend"}
Scenes == {"sphere", "helix"}

\* effect instances per scene component explored by the model
MaxInst == 2

\* the disposable objects one construction creates
SphereResources == {"geometry", "material", "edgesGeometry", "edgesMaterial",
                    "particlesGeometry", "particlesMaterial", "renderer"}
\* rungGeo / rungMat stand for the six rung geometries / materials, which
\* are created by one loop and (in the frontend) disposed by one forEach
HelixResources == {"geo1", "geo2", "mat1", "mat2", "rungGeo", "rungMat",
                   "particlesGeometry", "particlesMaterial", "renderer"}
AllResources == SphereResources \cup HelixResources
ResourcesOf(c) == IF c = "sphere" THEN SphereResources ELSE HelixResources

\* the scrollProgress prop, in percent of the 800 px distance
ScrollValues == {0, 100}
\* timestamp deltas between two animation frames, in ms (120 Hz and 60 Hz)
FrameDeltas == {8, 16}
\* `if (deltaTime < 16) return` of the sphere's animate
ThrottleMs == 16

\* by: the instance whose animate issued the render call; bundle: the
\* instance whose objects it drew; uncaught: the call threw and the
\* exception left the animation callback;
\* opacity: the opacity of each material animate assigns, as the render
\* call saw it, in units of 0.00001
NoOpacity == [m \in {} |-> 0]
NoRender == [by |-> 0, bundle |-> 0, uncaught |-> FALSE, opacity |-> NoOpacity]

\* ------------------------------------------------------------------------
\* Scenes: one effect instance (one run of the useEffect body)
\* ------------------------------------------------------------------------

\* getQualitySettings(quality); particleSize in hundredths
getQualitySettings(q) ==
    [sphereSegments |-> IF q = "high" THEN 32 ELSE IF q = "medium" THEN 24 ELSE 16,
     particleCount |-> IF q = "high" THEN 800 ELSE IF q = "medium" THEN 400 ELSE 200,
     particleSize |-> IF q = "high" THEN 12 ELSE 8,
     antialias |-> (q = "high"),
     powerPreference |-> IF q = "high" THEN "high-performance" ELSE "low-power"]

\* no sphere bundle built (and the helix, which takes no quality settings)
NoSettings ==
    [sphereSegments |-> 0, particleCount |-> 0, particleSize |-> 0,
     antialias |-> FALSE, powerPreference |-> "none"]

\* the settings the construction of instance r reads: the sphere closure
\* holds qualitySettings = useMemo(() => getQualitySettings(quality), [quality])
SettingsUsed(c, r) ==
    IF c = "sphere" THEN getQualitySettings(r.q) ELSE NoSettings

\* pc: "await"   the import of the graphics library is pending
\*     "ready"   the import settled, the continuation is queued in jobs
\*     "built"   construction completed; the async function returned the
\*               cleanup function
\*     "aborted" the continuation returned without building
\*     "failed"  the catch block ran
NewInstance(c, q, p) ==
    [mounted |-> TRUE,          \* the closure flag mounted / isMounted
     pc |-> "await",
     q |-> q,                   \* quality captured by the closure
     sp |-> p,                  \* scrollProgress captured by the closure
     created |-> {},            \* disposable objects this instance created
     disposed |-> [x \in ResourcesOf(c) |-> 0],  \* dispose() calls per object
     attached |-> FALSE,        \* renderer.domElement is a child of the container
     listening |-> FALSE,       \* its resize listener is registered on window
     raf |-> 0,                 \* its pending animation-frame callbacks
     elapsed |-> 0,             \* currentTime - lastTime, capped at ThrottleMs
     thenReg |-> FALSE,         \* cleanup.then(...) waits for the promise
     cut |-> FALSE,             \* history: cleaned up while the import was pending
     settings |-> NoSettings]   \* the quality settings the bundle was built with

Last(c) == Len(insts[c])

\* variant of ConstructionProceeds without the liveness flag
ConstructionIgnoresFlag(v, r, containerSet) == containerSet

\* the check after `await import('three')`: `if (!mounted) return` and
\* `if (!localMount) return` (src), `if (!isMounted || !mountRef.current)
\* return` (frontend)
ConstructionProceeds(v, r, containerSet) == r.mounted /\ containerSet

\* variant of AnimateProceeds without the liveness flag
AnimateIgnoresFlag(v, r, ref) ==
    IF v = "src" THEN TRUE
    ELSE ref # 0

\* the first line of animate: `if (!mounted) return` (src),
\* `if (!isMounted || !sceneDataRef.current) return` (frontend)
AnimateProceeds(v, r, ref) ==
    IF v = "src" THEN r.mounted
    ELSE r.mounted /\ ref # 0

\* the steps of the construction at which the model lets an exception be
\* thrown: the import itself, the creation of the renderer (before anything
\* disposable exists), the creation of the first geometry (the renderer exists
\* and its canvas is attached), and the render call of the animate() that the
\* src helix invokes synchronously inside the try block
FailPoints(v, c) ==
    IF v = "src" /\ c = "helix" THEN {"none", "renderer", "geometry", "render"}
    ELSE {"none", "renderer", "geometry"}

\* lastTime at the end of the construction: src sphere `lastTime = 0` with
\* animate(0) called directly (frame timestamps count from the time origin,
\* so the first frame is not throttled); frontend sphere `lastTime =
\* performance.now()`; the helix has no throttle
InitialElapsed(v, c) ==
    IF c = "sphere" /\ v = "src" THEN ThrottleMs ELSE 0

\* the instance after a construction that ran to the end: everything
\* created, canvas attached, listener registered, one animation callback
\* pending (src: requested by the direct animate call; frontend: requested by
\* requestAnimationFrame(animate))
Constructed(v, c, r) ==
    [r EXCEPT !.pc = "built",
              !.created = ResourcesOf(c),
              !.attached = TRUE,
              !.listening = TRUE,
              !.raf = 1,
              !.elapsed = InitialElapsed(v, c),
              !.settings = SettingsUsed(c, r)]

\* the instance after a construction that threw at fail point fp
FailedAt(v, c, r, fp) ==
    IF fp = "renderer" THEN [r EXCEPT !.pc = "failed"]
    ELSE IF fp = "geometry"
    THEN [r EXCEPT !.pc = "failed", !.created = {"renderer"}, !.attached = TRUE]
    ELSE \* "render": thrown by renderer.render inside the direct animate()
         [Constructed(v, c, r) EXCEPT !.pc = "failed"]

\* the cleanup returned by the effect: src `mounted = false`; frontend
\* `isMounted = false` and cleanup.then(cleanupFn => cleanupFn && cleanupFn())
EffectCleanupInst(v, r) ==
    IF v = "src" THEN [r EXCEPT !.mounted = FALSE]
    ELSE [r EXCEPT !.mounted = FALSE,
                   !.thenReg = (r.pc \in {"await", "ready"})]

\* history: the effect cleanup of instance r runs while its import is pending
CutMark(r) == [r EXCEPT !.cut = (r.pc \in {"await", "ready"})]

\* the promise jobs the effect cleanup queues at once: the reaction of
\* cleanup.then when the promise of initScene is already settled
EffectCleanupJobs(v, c, i, r) ==
    IF v = "frontend" /\ r.pc \notin {"await", "ready"}
    THEN <<[kind |-> "teardown", c |-> c, i |-> i, ok |-> TRUE]>>
    ELSE <<>>

\* the promise jobs queued when the promise of initScene settles: the
\* reaction registered by cleanup.then while it was pending
SettleJobs(c, i, r) ==
    IF r.thenReg
    THEN <<[kind |-> "teardown", c |-> c, i |-> i, ok |-> TRUE]>>
    ELSE <<>>

\* the objects the frontend cleanup function disposes, read from
\* sceneDataRef.current
TeardownDisposes(c) == ResourcesOf(c)

\* the state of the window before any scene component is mounted (the
\* selector is the same code in both variants)
InitNoScene ==
    /\ variant = "frontend"
    /\ present = {}
    /\ compMounted = [c \in Scenes |-> FALSE]
    /\ isLoaded = [c \in Scenes |-> FALSE]
    /\ insts = [c \in Scenes |-> <<>>]
    /\ sceneDataRef = [c \in Scenes |-> 0]
    /\ jobs = <<>>
    /\ scrollProgress = 0
    /\ lastRender = [c \in Scenes |-> NoRender]

InitQuality ==
    /\ innerWidth \in Widths
    /\ hardwareConcurrency \in Concurrencies
    /\ effectiveType \in EffectiveTypes
    /\ quality = InitialQuality(innerWidth, hardwareConcurrency, effectiveType)
    /\ timeoutId = NoTimer
    /\ pmMounted = TRUE
    /\ computedFrom = [w |-> innerWidth, hc |-> hardwareConcurrency,
                       net |-> effectiveType, by |-> "init", at |-> 0]
    /\ sinceResize = 0
    /\ recomputes = 0
    /\ burst = 0
    /\ InitNoScene
    /\ InitOthers

\* the window fires resize with a new width; the update listener, when
\* registered, restarts the debounce timer
Resize(w) ==
    /\ innerWidth' = w
    /\ timeoutId' = IF pmMounted THEN UpdateTimer ELSE timeoutId
    /\ burst' = IF ~pmMounted THEN burst
                ELSE IF burst > 0 /\ sinceResize < DebounceMs THEN Cap(burst + 1, MaxBurst)
                ELSE 1
    /\ sinceResize' = 0
    /\ recomputes' = 0
    /\ UNCHANGED <<hardwareConcurrency, effectiveType, quality, pmMounted,
                   computedFrom>>
    /\ UNCHANGED <<svars, xvars>>

\* the network class changes (no listener of the program observes it)
ConnectionChange(net) ==
    /\ net # effectiveType
    /\ effectiveType' = net
    /\ UNCHANGED <<innerWidth, hardwareConcurrency, quality, timeoutId,
                   pmMounted, computedFrom, sinceResize, recomputes, burst>>
    /\ UNCHANGED <<svars, xvars>>

\* d ms pass; a due timer fires before more time passes
Advance(d) ==
    /\ timeoutId = NoTimer \/ d <= timeoutId
    /\ timeoutId' = IF timeoutId = NoTimer THEN NoTimer ELSE timeoutId - d
    /\ sinceResize' = Cap(sinceResize + d, 2 * DebounceMs)
    /\ UNCHANGED <<innerWidth, hardwareConcurrency, effectiveType, quality,
                   pmMounted, computedFrom, recomputes, burst>>
    /\ UNCHANGED <<svars, xvars>>

\* the debounce timer fires: the callback reads the signals and sets quality
TimerFire ==
    /\ timeoutId = 0
    /\ timeoutId' = NoTimer
    /\ quality' = RecomputedQuality(innerWidth, hardwareConcurrency, effectiveType)
    /\ computedFrom' = [w |-> innerWidth, hc |-> hardwareConcurrency,
                        net |-> effectiveType, by |-> "resize", at |-> sinceResize]
    /\ recomputes' = Cap(recomputes + 1, 2)
    /\ UNCHANGED <<innerWidth, hardwareConcurrency, effectiveType, pmMounted,
                   sinceResize, burst>>
    /\ UNCHANGED <<svars, xvars>>

\* the selector is torn down (App unmounts): the effect cleanup runs
SelectorUnmount ==
    /\ pmMounted
    /\ pmMounted' = FALSE
    /\ timeoutId' = CleanupTimer
    /\ UNCHANGED <<innerWidth, hardwareConcurrency, effectiveType, quality,
                   computedFrom, sinceResize, recomputes, burst>>
    /\ UNCHANGED <<svars, xvars>>

\* ------------------------------------------------------------------------
\* Scenes: actions
\* ------------------------------------------------------------------------

NoRenders == [c \in Scenes |-> NoRender]

InitScene ==
    /\ innerWidth \in TierWidths
    /\ hardwareConcurrency = Num(4)
    /\ effectiveType = "4g"
    /\ quality = InitialQuality(innerWidth, hardwareConcurrency, effectiveType)
    /\ timeoutId = NoTimer
    /\ pmMounted = TRUE
    /\ computedFrom = [w |-> innerWidth, hc |-> hardwareConcurrency,
                       net |-> effectiveType, by |-> "init", at |-> 0]
    /\ sinceResize = 0
    /\ recomputes = 0
    /\ burst = 0
    /\ variant \in Variants
    /\ present \in {{"sphere"}, {"helix"}}
    /\ compMounted = [c \in Scenes |-> FALSE]
    /\ isLoaded = [c \in Scenes |-> FALSE]
    /\ insts = [c \in Scenes |-> <<>>]
    /\ sceneDataRef = [c \in Scenes |-> 0]
    /\ jobs = <<>>
    /\ scrollProgress = 0
    /\ lastRender = NoRenders
    /\ InitOthers

\* the component mounts: the effect runs for the first time and calls the
\* async loadScene / initScene, which suspends at the import
Mount(c) ==
    /\ c \in present
    /\ ~compMounted[c]
    /\ insts[c] = <<>>
    /\ jobs = <<>>
    /\ compMounted' = [compMounted EXCEPT ![c] = TRUE]
    /\ insts' = [insts EXCEPT ![c] = <<NewInstance(c, quality, scrollProgress)>>]
    /\ lastRender' = NoRenders
    /\ UNCHANGED <<variant, present, isLoaded, sceneDataRef, jobs, scrollProgress>>
    /\ UNCHANGED <<qvars, xvars>>

\* the import promise of instance i settles (fulfilled or rejected): the
\* continuation of the async function is queued as a promise job
ImportSettle(c, i, ok) ==
    /\ i \in 1..Len(insts[c])
    /\ insts[c][i].pc = "await"
    /\ insts' = [insts EXCEPT ![c][i].pc = "ready"]
    /\ jobs' = Append(jobs, [kind |-> "resume", c |-> c, i |-> i, ok |-> ok])
    /\ lastRender' = NoRenders
    /\ UNCHANGED <<variant, present, compMounted, isLoaded, sceneDataRef,
                   scrollProgress>>
    /\ UNCHANGED <<qvars, xvars>>

\* the instance after the continuation of loadScene / initScene ran
Resumed(v, c, r, ok, fp) ==
    IF ~ok THEN [r EXCEPT !.pc = "failed"]
    ELSE IF ~ConstructionProceeds(v, r, compMounted[c]) THEN [r EXCEPT !.pc = "aborted"]
    ELSE IF fp = "none" THEN Constructed(v, c, r)
    ELSE FailedAt(v, c, r, fp)

\* variant of MarksLoaded without the setIsLoaded(true) of the catch block
MarksLoadedOnSuccessOnly(r) == r.pc = "built"

\* setIsLoaded(true) at the end of the construction and in the catch block;
\* the return at the liveness check comes before both
MarksLoaded(r) == r.pc \in {"built", "failed"}

\* the head promise job is the continuation after the await: construct,
\* abort or fail; then the promise of the async function settles
ResumeConstruction(fp) ==
    /\ jobs # <<>>
    /\ Head(jobs).kind = "resume"
    /\ LET j == Head(jobs)
           c == j.c
           i == j.i
           r == Resumed(variant, c, insts[c][i], j.ok, fp)
       IN  /\ fp \in FailPoints(variant, c)
           /\ insts' = [insts EXCEPT ![c][i] = r]
           \* setIsLoaded(true) after the construction and in the catch block;
           \* a state update of an unmounted component is dropped
           /\ isLoaded' = [isLoaded EXCEPT ![c] =
                              IF MarksLoaded(r) /\ compMounted[c]
                              THEN TRUE ELSE @]
           \* sceneDataRef.current = {...} (frontend only)
           /\ sceneDataRef' = [sceneDataRef EXCEPT ![c] =
                                  IF r.pc = "built" /\ variant = "frontend"
                                  THEN i ELSE @]
           /\ jobs' = Tail(jobs) \o SettleJobs(c, i, insts[c][i])
    /\ lastRender' = NoRenders
    /\ UNCHANGED <<variant, present, compMounted, scrollProgress>>
    /\ UNCHANGED <<qvars, xvars>>

\* variant of TeardownFrontend that disposes the objects of its own closure
\* without the sceneDataRef.current guard and without clearing the reference
TeardownFrontendUnguarded(c, i, is, ref) ==
    [is |-> [k \in 1..Len(is) |->
                IF k = i
                THEN [is[k] EXCEPT !.mounted = FALSE, !.listening = FALSE, !.raf = 0,
                                   !.disposed = [x \in ResourcesOf(c) |->
                                                   is[k].disposed[x] + 1],
                                   !.attached = FALSE]
                ELSE is[k]],
     ref |-> ref]

\* the frontend cleanup function of instance i (the function the async
\* initScene returns), applied to the instances is of scene c and to
\* sceneDataRef.current = ref; the result holds both afterwards
TeardownFrontend(c, i, is, ref) ==
    [is |-> [k \in 1..Len(is) |->
                LET r0 == is[k]
                    \* isMounted = false; removeEventListener; cancelAnimationFrame
                    r1 == IF k = i
                          THEN [r0 EXCEPT !.mounted = FALSE, !.listening = FALSE,
                                          !.raf = 0]
                          ELSE r0
                    \* if (sceneDataRef.current): dispose what it holds and
                    \* detach its canvas
                IN  IF ref # 0 /\ k = ref
                    THEN [r1 EXCEPT !.disposed = [x \in ResourcesOf(c) |->
                                                    IF x \in TeardownDisposes(c)
                                                    THEN r1.disposed[x] + 1
                                                    ELSE r1.disposed[x]],
                                    !.attached = FALSE]
                    ELSE r1],
     \* sceneDataRef.current = null
     ref |-> 0]

\* variant of CleanupReaction that runs the cleanup function whatever
\* initScene resolved to (as if the abort path returned it too)
CleanupReactionAlways(c, i, is, ref) == TeardownFrontend(c, i, is, ref)

\* the reaction of cleanup.then for instance i: `cleanupFn && cleanupFn()`
\* with the value initScene resolved to, which is the cleanup function only
\* after a completed construction
CleanupReaction(c, i, is, ref) ==
    IF is[i].pc = "built"
    THEN TeardownFrontend(c, i, is, ref)
    ELSE [is |-> is, ref |-> ref]

\* the head promise job is the reaction of cleanup.then:
\* cleanupFn && cleanupFn()
RunTeardown ==
    /\ jobs # <<>>
    /\ Head(jobs).kind = "teardown"
    /\ LET j == Head(jobs)
           c == j.c
           after == CleanupReaction(c, j.i, insts[c], sceneDataRef[c])
       IN  /\ insts' = [insts EXCEPT ![c] = after.is]
           /\ sceneDataRef' = [sceneDataRef EXCEPT ![c] = after.ref]
    /\ jobs' = Tail(jobs)
    /\ lastRender' = NoRenders
    /\ UNCHANGED <<variant, present, compMounted, isLoaded, scrollProgress>>
    /\ UNCHANGED <<qvars, xvars>>

\* variant of DepsChanged in which the helix's effect depends on quality too
DepsChangedAll(c, q, p) == q # quality \/ p # scrollProgress

\* variant of DepsChanged in which the sphere's effect depends on
\* scrollProgress only
DepsChangedScrollOnly(c, q, p) == p # scrollProgress

\* the dependency arrays: [quality, qualitySettings, scrollProgress] (sphere),
\* [scrollProgress] (helix)
DepsChanged(c, q, p) ==
    IF c = "sphere" THEN q # quality \/ p # scrollProgress
    ELSE p # scrollProgress

Reruns(c, q, p) == c \in present /\ compMounted[c] /\ DepsChanged(c, q, p)

CleanupJobsOf(c) ==
    EffectCleanupJobs(variant, c, Last(c), insts[c][Last(c)])

\* a React commit with new props: for every mounted scene whose effect
\* dependencies changed, the cleanup of the current instance runs and then
\* the effect runs again
Commit(q, p) ==
    /\ jobs = <<>>
    \* App renders both scenes unconditionally: props change while they are mounted
    /\ \E c \in present : compMounted[c]
    /\ \A c \in Scenes : Reruns(c, q, p) => Len(insts[c]) < MaxInst
    /\ insts' = [c \in Scenes |->
                    IF Reruns(c, q, p)
                    THEN Append([insts[c] EXCEPT ![Last(c)] =
                                    EffectCleanupInst(variant, CutMark(insts[c][Last(c)]))],
                                NewInstance(c, q, p))
                    ELSE insts[c]]
    /\ jobs' = (IF Reruns("sphere", q, p) THEN CleanupJobsOf("sphere") ELSE <<>>)
               \o (IF Reruns("helix", q, p) THEN CleanupJobsOf("helix") ELSE <<>>)
    /\ quality' = q
    /\ scrollProgress' = p
    /\ lastRender' = NoRenders
    /\ UNCHANGED <<variant, present, compMounted, isLoaded, sceneDataRef>>

\* the viewport is resized to width w and the debounced recomputation
\* calls setQuality with the tier of w, the same as before or a different one
QualityChange(w) ==
    /\ Commit(RecomputedQuality(w, hardwareConcurrency, effectiveType), scrollProgress)
    /\ innerWidth' = w
    /\ computedFrom' = [w |-> w, hc |-> hardwareConcurrency,
                        net |-> effectiveType, by |-> "resize", at |-> DebounceMs]
    /\ UNCHANGED <<hardwareConcurrency, effectiveType, timeoutId, pmMounted,
                   sinceResize, recomputes, burst>>
    /\ UNCHANGED xvars

\* the scroll tracker publishes a different scroll progress
ScrollChange(p) ==
    /\ p # scrollProgress
    /\ Commit(quality, p)
    /\ UNCHANGED <<innerWidth, hardwareConcurrency, effectiveType, timeoutId,
                   pmMounted, computedFrom, sinceResize, recomputes, burst>>
    /\ UNCHANGED xvars

\* the component unmounts: React clears mountRef.current and runs the
\* cleanup of the current effect instance
Unmount(c) ==
    /\ compMounted[c]
    /\ jobs = <<>>
    /\ compMounted' = [compMounted EXCEPT ![c] = FALSE]
    /\ insts' = [insts EXCEPT ![c][Last(c)] =
                    EffectCleanupInst(variant, CutMark(insts[c][Last(c)]))]
    /\ jobs' = CleanupJobsOf(c)
    /\ lastRender' = NoRenders
    /\ UNCHANGED <<variant, present, isLoaded, sceneDataRef, scrollProgress>>
    /\ UNCHANGED <<qvars, xvars>>

\* instance i after its animation callback ran with timestamp delta dt;
\* rendered tells whether the frame was processed up to the render call
AnimateThrottled(c, r, dt) ==
    c = "sphere" /\ Cap(r.elapsed + dt, ThrottleMs) < ThrottleMs

\* variant of Animated in which the sphere requests the next frame after
\* the throttle check instead of before it
AnimatedRequestsAfterThrottle(v, c, r, ref, dt) ==
    LET fired == [r EXCEPT !.raf = @ - 1]
    IN  IF ~AnimateProceeds(v, r, ref) THEN fired
        ELSE IF AnimateThrottled(c, r, dt)
        THEN [fired EXCEPT !.elapsed = Cap(r.elapsed + dt, ThrottleMs)]
        ELSE [fired EXCEPT !.raf = @ + 1,
                           !.elapsed = IF c = "sphere" THEN 0 ELSE @]

Animated(v, c, r, ref, dt) ==
    LET fired == [r EXCEPT !.raf = @ - 1]
    IN  IF ~AnimateProceeds(v, r, ref) THEN fired
        ELSE LET again == [fired EXCEPT !.raf = @ + 1]   \* requestAnimationFrame(animate)
             IN  IF c # "sphere" THEN again
                 ELSE IF AnimateThrottled(c, r, dt)
                 THEN [again EXCEPT !.elapsed = Cap(r.elapsed + dt, ThrottleMs)]
                 ELSE [again EXCEPT !.elapsed = 0]

\* the bundle the render call of instance i draws: its own closure objects
\* (src), the objects read from sceneDataRef.current (frontend)
RenderedBundle(v, i, ref) == IF v = "src" THEN i ELSE ref

\* the materials whose opacity animate assigns
AnimatedMaterials(v, c) ==
    IF c = "sphere" THEN {"material", "edgesMaterial", "particlesMaterial"}
    ELSE IF v = "src" THEN {"mat1", "mat2"}
    ELSE {"mat1", "mat2", "particlesMaterial"}

\* `const sOpacity = Math.max(0.2, 1 - scrollProgress * 0.8)`, p in percent
\* and the result in units of 0.00001
SphereOpacity(p) == MathMax(20000, 100000 - 800 * p)

\* the right-hand side of the opacity assignment of material m in animate,
\* at scroll progress p
AssignedOpacity(v, c, m, p) ==
    IF c = "sphere"
    THEN IF m = "material" THEN SphereOpacity(p)
         ELSE IF m = "edgesMaterial" THEN (SphereOpacity(p) * 60) \div 100
         ELSE (SphereOpacity(p) * 45) \div 100
    ELSE IF v = "src"
    THEN IF m = "mat1" THEN 65000 + 310 * p
         ELSE 62000 + 330 * p
    ELSE IF m = "mat1" THEN 65000 + 250 * p
         ELSE IF m = "mat2" THEN 62000 + 280 * p
         ELSE 30000 + 400 * p

\* the opacity the construction gives material m, at the scroll progress p
\* the closure captured
ConstructionOpacity(v, c, m, p) ==
    IF c = "sphere"
    THEN IF m = "material" THEN 70000
         ELSE IF m = "edgesMaterial" THEN 38000
         ELSE 45000
    ELSE IF v = "src"
    THEN IF m = "mat1" THEN 70000 + 200 * p
         ELSE 65000 + 200 * p
    ELSE IF m = "mat1" THEN 70000
         ELSE IF m = "mat2" THEN 65000
         ELSE 40000

\* whether a processed frame assigns the opacities: always in the sphere and
\* the src helix; in the frontend helix under
\* `if (Math.abs(lastScrollProgress - scrollProgress) > 0.01)`
OpacityUpdateRuns(v, c, last, p) ==
    IF v = "frontend" /\ c = "helix"
    THEN (IF last > p THEN last - p ELSE p - last) > 1
    ELSE TRUE

\* the opacities after a processed frame of instance r: scrollProgress is the
\* value the closure captured, and `let lastScrollProgress = scrollProgress`
\* starts from the same captured value and is only ever assigned it
FrameOpacity(v, c, r) ==
    [m \in AnimatedMaterials(v, c) |->
        IF OpacityUpdateRuns(v, c, r.sp, r.sp)
        THEN AssignedOpacity(v, c, m, r.sp)
        ELSE ConstructionOpacity(v, c, m, r.sp)]

\* animate has no try block in either variant and either scene: nothing
\* thrown by its body is caught inside the callback
AnimateCatches(v, c) == FALSE

\* the browser runs a pending animation callback of instance i with
\* timestamp delta dt; throws: the render call of this frame throws
Frame(c, i, dt, throws) ==
    /\ jobs = <<>>
    /\ i \in 1..Len(insts[c])
    /\ insts[c][i].raf > 0
    /\ LET r == insts[c][i]
           runs == AnimateProceeds(variant, r, sceneDataRef[c])
                   /\ ~AnimateThrottled(c, r, dt)
       IN  /\ throws => runs
           \* requestAnimationFrame(animate) comes before the render call, so
           \* the loop goes on after a throw
           /\ insts' = [insts EXCEPT ![c][i] =
                           Animated(variant, c, r, sceneDataRef[c], dt)]
           /\ lastRender' = [NoRenders EXCEPT ![c] =
                                IF runs
                                THEN [by |-> i,
                                      bundle |-> RenderedBundle(variant, i, sceneDataRef[c]),
                                      uncaught |-> throws /\ ~AnimateCatches(variant, c),
                                      opacity |-> FrameOpacity(variant, c, r)]
                                ELSE NoRender]
    /\ UNCHANGED <<variant, present, compMounted, isLoaded, sceneDataRef, jobs,
                   scrollProgress>>
    /\ UNCHANGED <<qvars, xvars>>

NextScene ==
    \/ \E c \in Scenes : Mount(c)
    \/ \E c \in Scenes, i \in 1..MaxInst, ok \in BOOLEAN : ImportSettle(c, i, ok)
    \/ \E fp \in {"none", "renderer", "geometry", "render"} : ResumeConstruction(fp)
    \/ RunTeardown
    \/ \E w \in TierWidths : QualityChange(w)
    \/ \E p \in ScrollValues : ScrollChange(p)
    \/ \E c \in Scenes : Unmount(c)
    \/ \E c \in Scenes, i \in 1..MaxInst, dt \in FrameDeltas, throws \in BOOLEAN :
          Frame(c, i, dt, throws)

Spec == InitScene /\ [][NextScene]_vars

\* the scenes on a wide viewport whose size never changes, with 60 Hz frames
\* that do not throw: the steps that decide when the placeholder is hidden
InitLoad ==
    /\ InitScene
    /\ innerWidth = 1024

NextLoad ==
    \/ \E c \in Scenes : Mount(c)
    \/ \E c \in Scenes, i \in 1..MaxInst, ok \in BOOLEAN : ImportSettle(c, i, ok)
    \/ \E fp \in {"none", "renderer", "geometry", "render"} : ResumeConstruction(fp)
    \/ RunTeardown
    \/ \E p \in ScrollValues : ScrollChange(p)
    \/ \E c \in Scenes : Unmount(c)
    \/ \E c \in Scenes, i \in 1..MaxInst : Frame(c, i, ThrottleMs, FALSE)

\* every pending import settles, and the promise job queue is drained
\* (promise jobs run before the browser handles the next task)
SpecLoad ==
    /\ InitLoad
    /\ [][NextLoad]_vars
    /\ \A c \in Scenes, i \in 1..MaxInst :
          WF_vars(\E ok \in BOOLEAN : ImportSettle(c, i, ok))
    /\ WF_vars(\E fp \in {"none", "renderer", "geometry", "render"} :
                  ResumeConstruction(fp))
    /\ WF_vars(RunTeardown)

\* App renders both scene components: the sphere and the helix on one
\* page. The page is not scrolled (a commit of a new scroll progress re-runs
\* the effects of both scenes at once), frames come at 60 Hz and their render
\* calls do not throw
InitBoth ==
    /\ innerWidth \in BothWidths
    /\ hardwareConcurrency = Num(4)
    /\ effectiveType = "4g"
    /\ quality = InitialQuality(innerWidth, hardwareConcurrency, effectiveType)
    /\ timeoutId = NoTimer
    /\ pmMounted = TRUE
    /\ computedFrom = [w |-> innerWidth, hc |-> hardwareConcurrency,
                       net |-> effectiveType, by |-> "init", at |-> 0]
    /\ sinceResize = 0
    /\ recomputes = 0
    /\ burst = 0
    /\ variant \in Variants
    /\ present = Scenes
    /\ compMounted = [c \in Scenes |-> FALSE]
    /\ isLoaded = [c \in Scenes |-> FALSE]
    /\ insts = [c \in Scenes |-> <<>>]
    /\ sceneDataRef = [c \in Scenes |-> 0]
    /\ jobs = <<>>
    /\ scrollProgress = 0
    /\ lastRender = NoRenders
    /\ InitOthers

NextBoth ==
    \/ \E c \in Scenes : Mount(c)
    \/ \E c \in Scenes, i \in 1..MaxInst, ok \in BOOLEAN : ImportSettle(c, i, ok)
    \/ \E fp \in {"none", "geometry"} : ResumeConstruction(fp)
    \/ RunTeardown
    \/ \E w \in BothWidths : QualityChange(w)
    \/ \E c \in Scenes : Unmount(c)
    \/ \E c \in Scenes, i \in 1..MaxInst : Frame(c, i, ThrottleMs, FALSE)

SpecBoth == InitBoth /\ [][NextBoth]_vars

NextQuality ==
    \/ \E w \in Widths : Resize(w)
    \/ \E net \in EffectiveTypes : ConnectionChange(net)
    \/ \E d \in Ticks : Advance(d)
    \/ TimerFire
    \/ SelectorUnmount

SpecQuality == InitQuality /\ [][NextQuality]_vars

\* ------------------------------------------------------------------------
\* useScrollProgress: actions
\* ------------------------------------------------------------------------

\* the selector in a fixed state, for the runs that follow other components
InitSelectorFixed ==
    /\ innerWidth = 1024
    /\ hardwareConcurrency = Num(4)
    /\ effectiveType = "4g"
    /\ quality = InitialQuality(innerWidth, hardwareConcurrency, effectiveType)
    /\ timeoutId = NoTimer
    /\ pmMounted = TRUE
    /\ computedFrom = [w |-> innerWidth, hc |-> hardwareConcurrency,
                       net |-> effectiveType, by |-> "init", at |-> 0]
    /\ sinceResize = 0
    /\ recomputes = 0
    /\ burst = 0

InitScroll ==
    /\ InitSelectorFixed
    /\ InitNoScene
    /\ \E y \in ScrollYs : TrackerStarted(y)
    /\ BackendIdle
    /\ FormIdle

\* the window fires scroll at offset y; the updateScroll listener, when
\* registered, requests an animation frame unless one is pending
ScrollEvent(y) ==
    /\ y # scrollY
    /\ scrollPending < MaxPending
    /\ scrollY' = y
    /\ LET schedules == trackerMounted /\ UpdateScrollSchedules(rafId)
       IN  /\ rafId' = IF schedules THEN 1 ELSE rafId
           /\ scrollPending' = IF schedules THEN scrollPending + 1 ELSE scrollPending
           /\ scheduledSince' = IF schedules THEN scheduledSince + 1 ELSE scheduledSince
    /\ eventsSince' = IF trackerMounted THEN Cap(eventsSince + 1, MaxScrollBurst)
                      ELSE eventsSince
    /\ ranLast' = 0
    /\ UNCHANGED <<trackerMounted, readScrollY, scrollUpdated, ranEvents>>
    /\ UNCHANGED <<qvars, svars, bvars, fvars>>

\* the next animation frame runs the pending callbacks of the tracker: each
\* reads window.scrollY, publishes the progress and clears rafId.current
TrackerFrame ==
    /\ scrollPending > 0
    /\ scrollProgress' = ScrollProgressOf(scrollY)
    /\ rafId' = RafIdAfterCallback(rafId)
    /\ scrollPending' = 0
    /\ readScrollY' = scrollY
    /\ scrollUpdated' = TRUE
    /\ ranLast' = scrollPending
    /\ ranEvents' = eventsSince
    /\ eventsSince' = 0
    /\ scheduledSince' = 0
    /\ UNCHANGED <<scrollY, trackerMounted>>
    /\ UNCHANGED <<variant, present, compMounted, isLoaded, insts, sceneDataRef,
                   jobs, lastRender>>
    /\ UNCHANGED <<qvars, bvars, fvars>>

\* the tracker is torn down (App unmounts): removeEventListener, and
\* cancelAnimationFrame(rafId.current) when it is set
TrackerUnmount ==
    /\ trackerMounted
    /\ trackerMounted' = FALSE
    /\ scrollPending' = PendingAfterCleanup(rafId, scrollPending)
    /\ ranLast' = 0
    /\ UNCHANGED <<scrollY, rafId, readScrollY, scrollUpdated, eventsSince,
                   scheduledSince, ranEvents>>
    /\ UNCHANGED <<qvars, svars, bvars, fvars>>

NextScroll ==
    \/ \E y \in ScrollYs : ScrollEvent(y)
    \/ TrackerFrame
    \/ TrackerUnmount

SpecScroll == InitScroll /\ [][NextScroll]_vars

\* the browser runs the animation-frame callbacks it holds: a requested
\* callback is not left pending forever
SpecScrollLive == InitScroll /\ [][NextScroll]_vars /\ WF_vars(TrackerFrame)

\* ------------------------------------------------------------------------
\* Waitlist backend: actions
\* ------------------------------------------------------------------------

InitBackend ==
    /\ InitSelectorFixed
    /\ InitNoScene
    /\ TrackerStarted(0)
    /\ BackendIdle
    /\ FormIdle

\* a POST /api/waitlist request arrives: the handler runs up to its first
\* await, answering 400 for an invalid email and calling the insert otherwise
Post(body) ==
    /\ srvPc = "idle"
    /\ reqBody' = body
    /\ insertResult' = InsertNone
    /\ IF ~IsEmail(body)
       THEN /\ responses' = <<Response400>>
            /\ insertCalls' = 0
            /\ srvPc' = "done"
       ELSE /\ responses' = <<>>
            /\ insertCalls' = 1
            /\ srvPc' = "inserting"
    /\ UNCHANGED <<qvars, svars, tvars, fvars>>

\* the awaited insert settles with outcome o and the handler runs to its end
InsertSettles(o) ==
    /\ srvPc = "inserting"
    /\ insertResult' = o
    /\ responses' = Append(responses,
                           IF InsertFails(o) THEN Response500 ELSE Response200)
    /\ srvPc' = "done"
    /\ UNCHANGED <<reqBody, insertCalls>>
    /\ UNCHANGED <<qvars, svars, tvars, fvars>>

\* the handler has returned and the response is on its way: the backend
\* keeps nothing of the request
RequestOver ==
    /\ srvPc = "done"
    /\ reqBody' = UndefinedBody
    /\ srvPc' = "idle"
    /\ responses' = <<>>
    /\ insertCalls' = 0
    /\ insertResult' = InsertNone
    /\ UNCHANGED <<qvars, svars, tvars, fvars>>

NextBackend ==
    \/ \E body \in Bodies : Post(body)
    \/ \E o \in InsertOutcomes : InsertSettles(o)
    \/ RequestOver

SpecBackend == InitBackend /\ [][NextBackend]_vars

\* ------------------------------------------------------------------------
\* Waitlist form: actions
\* ------------------------------------------------------------------------

InitForm ==
    /\ InitSelectorFixed
    /\ InitNoScene
    /\ TrackerStarted(0)
    /\ BackendIdle
    /\ FormIdle

\* the user types character ch at the end of the input (the input is
\* disabled while submitting): onChange calls setEmail
TypeChar(ch) ==
    /\ ~isSubmitting
    /\ Len(email) < MaxEmailLen
    /\ email' = Append(email, ch)
    /\ handled' = "none"
    /\ finished' = NotFinished
    /\ sentEmail' = <<>>
    /\ UNCHANGED <<message, isSubmitting, fetchPc, replyStatus, inFlight>>
    /\ UNCHANGED <<qvars, svars, tvars, bvars>>

\* the user deletes the last character of the input
EraseChar ==
    /\ ~isSubmitting
    /\ email # <<>>
    /\ email' = SubSeq(email, 1, Len(email) - 1)
    /\ handled' = "none"
    /\ finished' = NotFinished
    /\ sentEmail' = <<>>
    /\ UNCHANGED <<message, isSubmitting, fetchPc, replyStatus, inFlight>>
    /\ UNCHANGED <<qvars, svars, tvars, bvars>>

\* handleSubmit is called: it returns at its first line, or sets
\* isSubmitting, clears the message and calls fetch
HandleSubmit ==
    /\ finished' = NotFinished
    /\ IF SubmitReturns(email, isSubmitting)
       THEN /\ handled' = "ignored"
            /\ UNCHANGED <<email, message, isSubmitting, fetchPc, sentEmail,
                           replyStatus, inFlight>>
       ELSE /\ inFlight < MaxInFlight
            /\ inFlight' = inFlight + 1
            /\ handled' = "sent"
            /\ isSubmitting' = TRUE
            /\ message' = ""
            /\ fetchPc' = "fetching"
            /\ sentEmail' = email
            /\ UNCHANGED <<email, replyStatus>>
    /\ UNCHANGED <<qvars, svars, tvars, bvars>>

\* the finally block and the return of handleSubmit
SubmissionEnds(how, status, body) ==
    /\ isSubmitting' = FALSE
    /\ fetchPc' = "idle"
    /\ replyStatus' = NoStatus
    /\ finished' = Finished(how, status, body)
    /\ inFlight' = inFlight - 1
    /\ handled' = "none"

\* the fetch promise rejects (transport failure): catch, finally
FetchRejects ==
    /\ fetchPc = "fetching"
    /\ message' = NetworkError
    /\ SubmissionEnds("fetch-rejected", NoStatus, NotJson)
    /\ UNCHANGED <<email, sentEmail>>
    /\ UNCHANGED <<qvars, svars, tvars, bvars>>

\* the fetch promise resolves with a response of the given status; the
\* handler goes on to await response.json()
FetchResolves(status) ==
    /\ fetchPc = "fetching"
    /\ fetchPc' = "parsing"
    /\ replyStatus' = status
    /\ handled' = "none"
    /\ finished' = NotFinished
    /\ UNCHANGED <<email, message, isSubmitting, sentEmail, inFlight>>
    /\ UNCHANGED <<qvars, svars, tvars, bvars>>

\* response.json() settles: a rejection goes to the catch block; a parsed
\* body goes through `if (response.ok)`; then finally
JsonSettles(body) ==
    /\ fetchPc = "parsing"
    /\ IF ~body.json
       THEN /\ message' = NetworkError
            /\ email' = email
       ELSE /\ message' = IF ResponseOk(replyStatus) THEN ThanksMessage
                          ELSE ErrorOrGeneric(body.error)
            /\ email' = EmailAfter(replyStatus, email)
    /\ SubmissionEnds(IF body.json THEN "parsed" ELSE "json-rejected",
                      replyStatus, body)
    /\ UNCHANGED sentEmail
    /\ UNCHANGED <<qvars, svars, tvars, bvars>>

NextForm ==
    \/ \E ch \in Chars : TypeChar(ch)
    \/ EraseChar
    \/ HandleSubmit
    \/ FetchRejects
    \/ \E status \in ReplyStatuses : FetchResolves(status)
    \/ \E body \in ReplyBodies : JsonSettles(body)

SpecForm == InitForm /\ [][NextForm]_vars

\* ------------------------------------------------------------------------
\* Claims
\* ------------------------------------------------------------------------

\* the tier the claims give for the signals w, hc, net
ClaimedTier(w, hc, net) ==
    IF w < 768 \/ (hc.defined /\ hc.value < 4) \/ net \in {"2g", "slow-2g"}
    THEN "low"
    ELSE IF w < 1024 THEN "medium"
    ELSE "high"

\* C1: the tier, whether computed by the initializer or by the debounced
\* recomputation, is ClaimedTier of the signals read at that moment; an
\* undefined processor count or an absent network type does not force low
C1_TierIsFunctionOfSignals ==
    /\ quality = ClaimedTier(computedFrom.w, computedFrom.hc, computedFrom.net)
    /\ (computedFrom.w >= 768 /\ ~computedFrom.hc.defined
        /\ computedFrom.net = "undefined") => quality # "low"

\* a debounced recomputation ran with an undefined processor count and an
\* absent network type, and gave a tier other than low
C1_Witness ==
    /\ computedFrom.by = "resize"
    /\ ~computedFrom.hc.defined
    /\ computedFrom.net = "undefined"
    /\ quality = "medium"

STEP_Recompute == recomputes' = recomputes + 1

\* C10: since the last resize event there is at most one recomputation; it
\* happens 100 ms after that event, never while the timer of the burst is
\* running, and once the burst is over it has happened; the step that
\* recomputes reads the signals of that moment and needs the selector mounted
C10_State ==
    /\ recomputes <= 1
    /\ computedFrom.by = "resize" => computedFrom.at = DebounceMs
    /\ timeoutId # NoTimer =>
          recomputes = 0 /\ sinceResize = DebounceMs - timeoutId
    /\ (pmMounted /\ burst > 0 /\ timeoutId = NoTimer) => recomputes = 1

C10_Step ==
    STEP_Recompute =>
        /\ pmMounted
        /\ sinceResize = DebounceMs
        /\ quality' = ClaimedTier(innerWidth', hardwareConcurrency', effectiveType')

C10_DebouncedRecompute == []C10_State /\ [][C10_Step]_vars

\* a burst of at least two resize events ended and was followed by its one
\* recomputation
C10_Witness ==
    /\ burst >= 2
    /\ recomputes = 1
    /\ computedFrom.by = "resize"
    /\ pmMounted

\* C2: a render call is issued only by, and only for, an instance whose
\* effect has not been cleaned up
C2_NoRenderAfterCleanup ==
    \A c \in Scenes :
        lastRender[c].by # 0 =>
            /\ insts[c][lastRender[c].by].mounted
            /\ lastRender[c].bundle # 0
            /\ insts[c][lastRender[c].bundle].mounted

\* src: the animation callback of a cleaned-up instance, requested before
\* the cleanup and never cancelled, has fired and returned
C2_Witness ==
    /\ variant = "src"
    /\ \E c \in Scenes : \E i \in 1..Len(insts[c]) :
          /\ insts[c][i].pc = "built"
          /\ ~insts[c][i].mounted
          /\ insts[c][i].raf = 0

\* C3: after the unmount (and the promise jobs it queued), every object of
\* every instance that completed construction has been disposed exactly once
C3_ReleasedExactlyOnce ==
    \A c \in Scenes :
        (~compMounted[c] /\ insts[c] # <<>> /\ jobs = <<>>) =>
            \A i \in 1..Len(insts[c]) :
                insts[c][i].pc = "built" =>
                    \A x \in ResourcesOf(c) : insts[c][i].disposed[x] = 1

AttachedCount(c) ==
    Cardinality({i \in 1..Len(insts[c]) : insts[c][i].attached})

\* C4: the mount container has at most one render-target child, and exactly
\* one while the current instance is constructed
C4_OneRenderTarget ==
    \A c \in Scenes :
        /\ AttachedCount(c) <= 1
        /\ (insts[c] # <<>> /\ insts[c][Last(c)].pc = "built"
            /\ insts[c][Last(c)].mounted) => AttachedCount(c) = 1

\* C5: an instance cleaned up while its import was pending has, once the
\* continuation ran, created nothing, attached nothing, registered no
\* listener and requested no animation frame
C5_LateConstructionBuildsNothing ==
    \A c \in Scenes : \A i \in 1..Len(insts[c]) :
        (insts[c][i].cut /\ insts[c][i].pc \notin {"await", "ready"}) =>
            /\ insts[c][i].created = {}
            /\ ~insts[c][i].attached
            /\ ~insts[c][i].listening
            /\ insts[c][i].raf = 0
            /\ sceneDataRef[c] # i

\* the import of a cleaned-up instance was fulfilled and its continuation
\* returned at the liveness check
C5_Witness ==
    \E c \in Scenes : \E i \in 1..Len(insts[c]) :
        insts[c][i].cut /\ insts[c][i].pc = "aborted"

\* C6: whenever a newer instance has created objects, every object of every
\* older instance is disposed and its canvas detached
C6_TeardownBeforeRebuild ==
    \A c \in Scenes : \A i, k \in 1..Len(insts[c]) :
        (i < k /\ insts[c][k].created # {}) =>
            /\ \A x \in insts[c][i].created : insts[c][i].disposed[x] >= 1
            /\ ~insts[c][i].attached

\* C7: in every state from the effect cleanup on, the animation callback of
\* the cleaned-up instance is cancelled and all its objects are disposed
C7_SynchronousTeardown ==
    \A c \in Scenes : \A i \in 1..Len(insts[c]) :
        (insts[c][i].pc = "built" /\ ~insts[c][i].mounted) =>
            /\ insts[c][i].raf = 0
            /\ \A x \in insts[c][i].created : insts[c][i].disposed[x] >= 1

\* C8: after a construction that threw, the scene is marked loaded and no
\* animation callback of the instance is pending
C8_FailureContained ==
    \A c \in Scenes : \A i \in 1..Len(insts[c]) :
        insts[c][i].pc = "failed" =>
            /\ compMounted[c] => isLoaded[c]
            /\ insts[c][i].raf = 0

\* the teardown of instance i as the program runs it: the effect cleanup,
\* followed in the frontend by the reaction of cleanup.then; src drops the
\* cleanup function that loadScene returns
TeardownOf(v, c, i, is, ref) ==
    LET flagged == [is EXCEPT ![i] = EffectCleanupInst(v, is[i])]
    IN  IF v = "src" THEN [is |-> flagged, ref |-> ref]
        ELSE CleanupReaction(c, i, flagged, ref)

Released(is) ==
    [k \in 1..Len(is) |-> [disposed |-> is[k].disposed, attached |-> is[k].attached]]

\* C9: the teardown of an instance that never created an object disposes
\* and detaches nothing; running the teardown of any instance a second time
\* disposes and detaches nothing more, and no object is disposed twice
C9_TeardownIdempotent ==
    \A c \in Scenes : \A i \in 1..Len(insts[c]) :
        LET once == TeardownOf(variant, c, i, insts[c], sceneDataRef[c])
            twice == TeardownOf(variant, c, i, once.is, once.ref)
        IN  /\ (insts[c][i].pc \in {"aborted", "failed"} /\ insts[c][i].created = {})
                  => Released(once.is) = Released(insts[c])
            /\ Released(twice.is) = Released(once.is)
            /\ \A k \in 1..Len(insts[c]) : \A x \in ResourcesOf(c) :
                  twice.is[k].disposed[x] <= 1

\* frontend: one instance was built and torn down, and the reaction of
\* cleanup.then has run for an instance whose construction was aborted
C9_Witness ==
    /\ variant = "frontend"
    /\ jobs = <<>>
    /\ \E c \in Scenes : \E i, k \in 1..Len(insts[c]) :
          /\ insts[c][i].pc = "built"
          /\ insts[c][i].disposed["renderer"] = 1
          /\ insts[c][k].pc = "aborted"
          /\ insts[c][k].thenReg

\* clamp(scrollY / 800, 0, 1) of the claims, in percent
ClaimedProgress(y) ==
    IF y <= 0 THEN 0
    ELSE IF y >= 800 THEN 100
    ELSE (y * 100) \div 800

\* C11: at most one scroll update is pending; between two animation frames
\* at most one callback is requested however many scroll events arrive, the
\* events of a burst leave exactly one update pending, and the frame that
\* follows runs exactly one recomputation
C11_OneUpdatePerFrame ==
    /\ scrollPending <= 1
    /\ scheduledSince <= 1
    /\ ranLast <= 1
    /\ (trackerMounted /\ eventsSince > 0) => (scrollPending = 1 /\ scheduledSince = 1)
    /\ (trackerMounted /\ scrollPending = 1) <=> (trackerMounted /\ rafId # 0)

\* a frame ran exactly one recomputation after a burst of at least two
\* scroll events, and a new burst of two events has one update pending
C11_Witness ==
    /\ ranEvents >= 2
    /\ scrollUpdated
    /\ eventsSince >= 2
    /\ scheduledSince = 1
    /\ scrollPending = 1

\* C12: the published progress lies in [0,1] (0..100 percent), is 0 before
\* the first recomputation, and after a recomputation equals
\* clamp(scrollY / 800, 0, 1) of the offset that recomputation read
C12_ProgressClamped ==
    /\ scrollProgress \in 0..100
    /\ ~scrollUpdated => scrollProgress = 0
    /\ scrollUpdated => scrollProgress = ClaimedProgress(readScrollY)
    /\ (scrollUpdated /\ readScrollY = 0) => scrollProgress = 0
    /\ (scrollUpdated /\ readScrollY >= 800) => scrollProgress = 100

\* a recomputation read an offset beyond the distance and published 1
C12_Witness ==
    /\ scrollUpdated
    /\ readScrollY > 800
    /\ scrollProgress = 100

\* the insert reported an error whose message contains `duplicate` in some
\* letter case
ClaimedDuplicate(o) ==
    /\ o.kind = "error"
    /\ \E k \in 1..Len(o.message) : o.message[k] \in {"duplicate", "Duplicate", "DUPLICATE"}

\* C13: a handled request has exactly one response, one of the three of the
\* interface; it is the 400 exactly when the email is not a string matching
\* the server pattern, and then no insert was attempted; while the insert is
\* awaited nothing has been sent
C13_OneResponse ==
    /\ srvPc = "done" =>
          /\ Len(responses) = 1
          /\ responses[1] \in {Response(200, "message", "Successfully added to waitlist."),
                               Response(400, "error", "Invalid email address"),
                               Response(500, "error", "Failed to add to waitlist.")}
          /\ responses[1].status = 400
                <=> ~(reqBody.type = "string" /\ ServerPattern(reqBody.chars))
          /\ responses[1].status = 400 => insertCalls = 0
          /\ responses[1].status # 400 => insertCalls = 1
    /\ srvPc = "inserting" => responses = <<>>

\* a string that the pattern of the form accepts and the server pattern
\* rejects was answered 400 without an insert
C13_Witness ==
    /\ srvPc = "done"
    /\ reqBody.type = "string"
    /\ ClientPattern(reqBody.chars)
    /\ responses = <<Response400>>
    /\ insertCalls = 0

\* C14: for a valid email, a duplicate error of the insert is answered 200
\* with the success message; any other error, and a throwing insert, is
\* answered 500
C14_DuplicateIsSuccess ==
    (srvPc = "done" /\ insertCalls = 1) =>
        /\ ClaimedDuplicate(insertResult) => responses = <<Response200>>
        /\ (insertResult.kind \in {"error", "error-no-message", "throws"}
            /\ ~ClaimedDuplicate(insertResult))
              => (responses = <<Response500>> /\ responses[1].status # 200)
        /\ insertResult.kind = "ok" => responses = <<Response200>>

\* an insert error with the message `Duplicate entry` was answered 200
C14_Witness ==
    /\ srvPc = "done"
    /\ insertResult = InsertError(<<"Duplicate", "entry">>)
    /\ responses = <<Response200>>

\* the email is empty or does not match the pattern of the form
ClaimedInvalid(e) == e = <<>> \/ ~ClientPattern(e)

C15_State == ClaimedInvalid(email) => SubmitDisabled

C15_Step ==
    (handled' # "none" /\ ClaimedInvalid(email)) =>
        /\ handled' = "ignored"
        /\ fetchPc' = fetchPc
        /\ UNCHANGED <<email, message, isSubmitting>>

\* C15: while the email is empty or does not match the pattern of the form
\* the submit control is disabled, and a handleSubmit call sends no request
\* and leaves email, message and isSubmitting as they were
C15_InvalidEmailNotSent == []C15_State /\ [][C15_Step]_vars

\* handleSubmit was called with a non-empty email that does not match the
\* pattern and returned without sending
C15_Witness ==
    /\ handled = "ignored"
    /\ email # <<>>
    /\ ~ClientPattern(email)
    /\ ~isSubmitting
    /\ fetchPc = "idle"

\* C16: a submission that ended on a parsed response with a success status
\* shows the success message and has cleared the input; on a parsed
\* response with another status it shows the error text of the body, or the
\* generic failure message when the body gives none, and keeps the input; on
\* a rejected fetch or an unparsable body it shows the network-error message
\* and keeps the input; isSubmitting is false in all three cases
C16_OutcomeByResponse ==
    finished.how # "none" =>
        /\ ~isSubmitting
        /\ (finished.how = "parsed" /\ finished.status \in 200..299) =>
              (message = "Thanks! You've joined the waitlist." /\ email = <<>>)
        /\ (finished.how = "parsed" /\ finished.status \notin 200..299) =>
              /\ email = sentEmail
              /\ (finished.body.error.has /\ finished.body.error.text # "")
                    => message = finished.body.error.text
              /\ ~(finished.body.error.has /\ finished.body.error.text # "")
                    => message = "Failed to submit. Please try again."
        /\ finished.how \in {"fetch-rejected", "json-rejected"} =>
              (message = "Network error. Please try again later." /\ email = sentEmail)

\* a submission ended on a 500 response and the form shows the error text
\* of its body with the input kept
C16_Witness ==
    /\ finished.how = "parsed"
    /\ finished.status = 500
    /\ message = "Failed to add to waitlist."
    /\ email = sentEmail
    /\ email # <<>>
    /\ ~isSubmitting

C17_Step ==
    (scrollProgress' # scrollProgress /\ quality' = quality
     /\ compMounted' = compMounted) =>
        \A c \in Scenes :
            (compMounted[c] /\ insts[c] # <<>>) =>
                /\ Len(insts'[c]) = Len(insts[c])
                /\ insts'[c][Last(c)].mounted = insts[c][Last(c)].mounted
                /\ insts'[c][Last(c)].elapsed = insts[c][Last(c)].elapsed
                /\ insts'[c][Last(c)].created = insts[c][Last(c)].created

\* C17: a step that changes the published scroll progress and nothing else
\* leaves every mounted scene with the same instance: no cleanup runs, no new
\* instance is started, and the instance keeps its bundle and its clock
C17_ScrollKeepsScene == [][C17_Step]_vars

C18_Step ==
    variant = "frontend" =>
        \A c \in Scenes : \A k \in 1..Len(insts[c]) :
            (\/ insts'[c][k].disposed # insts[c][k].disposed
             \/ insts[c][k].attached /\ ~insts'[c][k].attached)
            => /\ jobs # <<>>
               /\ Head(jobs) = [kind |-> "teardown", c |-> c, i |-> k, ok |-> TRUE]
               /\ \A x \in ResourcesOf(c) : insts'[c][k].disposed[x] <= 1

\* C18: in the frontend variant every dispose call and every detached
\* canvas of an instance is the work of the deferred teardown of that same
\* instance, and at every moment the shared reference holds the bundle of an
\* instance that is built and not torn down
C18_State ==
    variant = "frontend" =>
        \A c \in Scenes :
            sceneDataRef[c] # 0 =>
                /\ insts[c][sceneDataRef[c]].pc = "built"
                /\ insts[c][sceneDataRef[c]].attached
                /\ \A x \in ResourcesOf(c) : insts[c][sceneDataRef[c]].disposed[x] = 0

C18_TeardownOwnResourcesOnly == []C18_State /\ [][C18_Step]_vars

\* frontend: the first instance was built and torn down by its deferred
\* teardown, and the second instance is built with its bundle untouched
C18_Witness ==
    /\ variant = "frontend"
    /\ jobs = <<>>
    /\ \E c \in Scenes :
          /\ Len(insts[c]) = 2
          /\ insts[c][1].pc = "built"
          /\ insts[c][1].disposed["renderer"] = 1
          /\ ~insts[c][1].attached
          /\ insts[c][2].pc = "built"
          /\ insts[c][2].attached
          /\ insts[c][2].disposed["renderer"] = 0
          /\ sceneDataRef[c] = 2

ListenerCount(c) ==
    Cardinality({i \in 1..Len(insts[c]) : insts[c][i].listening})

LiveCount(c) ==
    Cardinality({i \in 1..Len(insts[c]) : insts[c][i].mounted})

\* C19: once the cleanup of an instance and the promise jobs it queued have
\* run, its resize listener is not registered, and the scene's listeners on
\* the window are at most as many as its live instances
C19_NoListenerLeak ==
    jobs = <<>> =>
        \A c \in Scenes :
            /\ \A i \in 1..Len(insts[c]) :
                  ~insts[c][i].mounted => ~insts[c][i].listening
            /\ ListenerCount(c) <= LiveCount(c)

\* C20: no exception thrown by the render call of a frame leaves the
\* animation callback
C20_FrameErrorCaught ==
    \A c \in Scenes : ~lastRender[c].uncaught

C28_State == ~trackerMounted => scrollPending = 0

C28_Step ==
    ~trackerMounted =>
        /\ scrollProgress' = scrollProgress
        /\ scrollPending' = scrollPending
        /\ ~trackerMounted'

\* C28: after the teardown of the tracker no update is pending, and no step
\* that follows (scroll event or animation frame) publishes a scroll
\* progress or requests a callback
C28_NoPublishAfterTeardown == []C28_State /\ [][C28_Step]_vars

\* the tracker was torn down while an update was pending (rafId.current is
\* still set), the update was cancelled, and the window has been scrolled
\* to an offset that no recomputation has read
C28_Witness ==
    /\ ~trackerMounted
    /\ rafId # 0
    /\ scrollPending = 0
    /\ scrollUpdated
    /\ scrollY # readScrollY
    /\ scrollProgress # ClaimedProgress(scrollY)

\* the last recomputation read the present scroll offset and published its
\* clamp
C29_Caught ==
    /\ scrollUpdated
    /\ eventsSince = 0
    /\ readScrollY = scrollY
    /\ scrollProgress = ClaimedProgress(scrollY)

\* C29: while the tracker is mounted, every scroll event that reached the
\* listener is followed by a recomputation that reads the offset of the
\* last event of its burst and publishes clamp(scrollY / 800, 0, 1) of it;
\* and the frame that runs after a burst has read the final offset
C29_NoScrollLost ==
    /\ [][TrackerFrame => C29_Caught']_vars
    /\ []((trackerMounted /\ eventsSince > 0) => <>(~trackerMounted \/ C29_Caught))

\* a frame ran after a burst of at least two scroll events and published
\* the clamp of the final offset of the burst, which is not the initial one
C29_Witness ==
    /\ ranLast = 1
    /\ ranEvents >= 2
    /\ trackerMounted
    /\ C29_Caught
    /\ scrollProgress = 50

C30_State ==
    /\ inFlight <= 1
    /\ isSubmitting <=> inFlight = 1
    /\ isSubmitting <=> fetchPc \in {"fetching", "parsing"}

C30_Step ==
    (handled' # "none" /\ isSubmitting) =>
        /\ handled' = "ignored"
        /\ inFlight' = inFlight
        /\ fetchPc' = fetchPc

\* C30: at most one request of the form is in flight; isSubmitting is true
\* exactly while one is (from the fetch call until the response or the
\* failure has been handled), and a handleSubmit call made meanwhile sends
\* nothing
C30_OneRequestInFlight == []C30_State /\ [][C30_Step]_vars

\* handleSubmit was called while a request with a valid email was in
\* flight, and returned without sending
C30_Witness ==
    /\ handled = "ignored"
    /\ isSubmitting
    /\ inFlight = 1
    /\ ClientPattern(email)

\* C21: in each scene type (sphere and helix, either variant) an animation
\* callback invoked less than 16 ms after the last processed frame of its
\* instance requests the next frame but issues no render call.
C21_Step ==
    \A c \in Scenes, i \in 1..MaxInst, dt \in FrameDeltas, throws \in BOOLEAN :
        (/\ dt < ThrottleMs
         /\ lastRender[c].by = i
         /\ Frame(c, i, dt, throws))
        => /\ lastRender'[c] = NoRender
           /\ insts'[c][i].raf = insts[c][i].raf

C21_ThrottledFrameIdle == [][C21_Step]_vars

\* C22: after every processed frame of a live scene (both scenes, both
\* variants) the opacity of each material the animation assigns equals the
\* scene's opacity function at the most recently published scroll progress.
C22_OpacityFollowsScroll ==
    \A c \in Scenes :
        LET lr == lastRender[c]
        IN  (lr.by # 0 /\ insts[c][lr.by].mounted)
            => \A m \in AnimatedMaterials(variant, c) :
                  lr.opacity[m] = AssignedOpacity(variant, c, m, scrollProgress)

\* scroll progress values (percent) at which the opacity functions are compared
OpacitySamples == {0, 25, 50, 75, 100}

\* C23: in both scene types the opacity animate assigns to every material
\* never increases when scroll progress increases (p <= q gives opacity at q
\* at most opacity at p), and the sphere's base value never drops below 0.2.
C23_OpacityNonIncreasing ==
    \A c \in Scenes :
        lastRender[c].by # 0
        => /\ \A m \in AnimatedMaterials(variant, c) :
                 \A p \in OpacitySamples, q \in OpacitySamples :
                    p <= q => AssignedOpacity(variant, c, m, q)
                              <= AssignedOpacity(variant, c, m, p)
           /\ c = "sphere"
              => \A p \in OpacitySamples :
                    AssignedOpacity(variant, c, "material", p) >= 20000

\* the quality settings of the claims: segments 16/24/32, particles
\* 200/400/800, antialiasing only at high
ClaimedSegments(q) == IF q = "low" THEN 16 ELSE IF q = "medium" THEN 24 ELSE 32
ClaimedParticles(q) == IF q = "low" THEN 200 ELSE IF q = "medium" THEN 400 ELSE 800

\* every live, completely built sphere bundle was built with the settings
\* of the current tier
C24_State ==
    \A i \in 1..Len(insts["sphere"]) :
        LET r == insts["sphere"][i]
        IN  (r.mounted /\ r.pc = "built") =>
               /\ r.settings.sphereSegments = ClaimedSegments(quality)
               /\ r.settings.particleCount = ClaimedParticles(quality)
               /\ r.settings.antialias = (quality = "high")

\* a recomputation that changes the tier cleans up the current sphere
\* instance and starts a new one with the new tier; a recomputation that
\* yields the same tier touches no instance, promise job or bundle reference
C24_Step ==
    /\ (quality' # quality /\ compMounted["sphere"]) =>
          LET n == Len(insts["sphere"])
          IN  /\ Len(insts'["sphere"]) = n + 1
              /\ ~insts'["sphere"][n].mounted
              /\ insts'["sphere"][n + 1].mounted
              /\ insts'["sphere"][n + 1].pc = "await"
              /\ insts'["sphere"][n + 1].q = quality'
    /\ \A w \in TierWidths :
          (QualityChange(w) /\ quality' = quality) =>
              /\ insts' = insts
              /\ jobs' = jobs
              /\ sceneDataRef' = sceneDataRef

C25_OneCallbackPending ==
    \A c \in Scenes : \A i \in 1..Len(insts[c]) :
        LET r == insts[c][i]
        IN  /\ r.raf <= 1
            /\ (r.mounted /\ r.pc = "built") => r.raf = 1

\* a live sphere whose animation callback ran and was throttled, with the
\* next callback pending
C25_Witness ==
    \E i \in 1..Len(insts["sphere"]) :
        LET r == insts["sphere"][i]
        IN  r.mounted /\ r.pc = "built" /\ r.elapsed = 8 /\ r.raf = 1

\* C26: for a scene component that stays mounted with unchanged inputs (no
\* unmount and no new effect instance), the loading placeholder is
\* eventually hidden whether the import and the construction succeed or
\* fail, provided the import eventually settles.
C26_PlaceholderHidden ==
    \A c \in Scenes : \A n \in 1..MaxInst :
        (compMounted[c] /\ Len(insts[c]) = n /\ ~isLoaded[c])
        ~> (isLoaded[c] \/ ~compMounted[c] \/ Len(insts[c]) # n)

\* the construction of the current instance of a mounted scene threw, and
\* the scene is marked loaded
C26_Witness ==
    \E c \in Scenes :
        /\ compMounted[c]
        /\ insts[c] # <<>>
        /\ insts[c][Last(c)].pc = "failed"
        /\ insts[c][Last(c)].mounted
        /\ isLoaded[c]

\* what belongs to scene c: its instances (objects created and disposed,
\* attached canvas, listener, pending animation callbacks), its loaded flag
\* and its bundle reference
SceneState(c) == <<insts[c], isLoaded[c], sceneDataRef[c]>>

\* a step that is not a commit of a new scroll progress (the one input both
\* scenes share) and changes one scene leaves the other scene unchanged
C27_Step ==
    scrollProgress' = scrollProgress =>
        \A c \in Scenes, d \in Scenes :
            (c # d /\ SceneState(c)' # SceneState(c)) => SceneState(d)' = SceneState(d)

\* C27: the sphere and the helix have independent lifecycles: every
\* construction, construction failure, reconstruction or teardown step of
\* one scene leaves the other scene's resources, animation scheduling,
\* loaded flag and attached render target unchanged.
C27_IndependentLifecycles == [][C27_Step]_vars

\* the sphere was reconstructed after a tier change while the helix, built
\* before it, is still live with its canvas attached and its loop running
C27_Witness ==
    /\ Len(insts["sphere"]) = 2
    /\ insts["sphere"][2].pc = "built"
    /\ insts["sphere"][2].q # insts["sphere"][1].q
    /\ Len(insts["helix"]) = 1
    /\ insts["helix"][1].pc = "built"
    /\ insts["helix"][1].mounted
    /\ insts["helix"][1].attached
    /\ insts["helix"][1].raf = 1
    /\ isLoaded["helix"]

====
